---- MODULE Spec2Model ----
(***************************************************************************)
(* iondump (src/main.go): streams a Sneller '.ion.zst' object, strips its  *)
(* trailer, extracts the blob records of the outer ION container,          *)
(* decompresses them and renders the values as text.                       *)
(*                                                                         *)
(*   SpecBvm      - bvmReader.Read over an arbitrary wrapped io.Reader     *)
(*   SpecSize     - sizeWithoutTrailer and the start of main               *)
(*   SpecExtract  - extract alone, writing to an arbitrary sink            *)
(*   SpecPipe     - the three goroutines of main and their two pipes       *)
(*   FairSpecPipe - SpecPipe under the scheduler's fairness                *)
(***************************************************************************)
EXTENDS Integers, Sequences, FiniteSets, TLC

VARIABLES
    \* ---- bvmReader (src/main.go:229-263) and the reader it wraps
    src,        \* bytes the wrapped source has not delivered yet
    srcState,   \* "open" | "eof" | "broken": what the wrapped source answers next
    rn,         \* bvmReader.n
    p,          \* the caller's buffer after the last Read call
    retN,       \* count returned by the last Read call
    retErr,     \* error returned by the last Read call
    srcCalls,   \* number of reads the last Read call issued on the wrapped source
    got,        \* concatenation of the bytes reported as returned so far
    delivered,  \* concatenation of the bytes the wrapped source handed out so far
    ended,      \* some Read call has returned a non-nil error
    call        \* the last Read call: r.n before it, len(p), the source's answer

bvmVars == <<src, srcState, rn, p, retN, retErr, srcCalls, got, delivered, ended,
             call>>

VARIABLES
    \* ---- sizeWithoutTrailer (src/main.go:135-162) and main up to line 82
    objSize,    \* stat.Size of the remote object
    tail,       \* the object's last 4 bytes
    szPc,       \* "start" | "probed" | "streaming" | "exited"
    szIO,       \* what Stat and ReadAt answered during the probe
    szRet,      \* the length sizeWithoutTrailer returned
    szErr,      \* the error sizeWithoutTrailer returned
    lrN,        \* io.LimitedReader.N of inputWithoutTrailer
    lrLast,     \* what the last Read of inputWithoutTrailer answered
    hProbe,     \* object handle of the probe: "none" | "open" | "closed"
    hStream     \* object handle of the streamed read

sizeVars == <<objSize, tail, szPc, szIO, szRet, szErr, lrN, lrLast, hProbe, hStream>>

VARIABLES
    \* ---- the pipeline of main (src/main.go:86-117) and its three stages
    envelope,   \* the top-level records of the payload region, in order
    idx,        \* number of records r.Next() has handed to extract
    exStop,     \* why extract's record iteration stopped: "none" | "eof" | "error"
    exWrites,   \* the values extract passed to out.Write, in order
    pipeA,      \* io.Pipe compReader/compWriter   (extract -> decompress)
    pipeB,      \* io.Pipe decompReader/decompWriter (decompress -> dump)
    aGot,       \* every byte read from stream A so far
    pc,         \* where each stage is
    res,        \* what each stage function returned: "none" | "nil" | an error
    wg,         \* sync.WaitGroup counter
    proc,       \* the process: "running" | "exit0" | "exit1"
    stderr,     \* errors printed by exit
    raised,     \* kinds of error raised so far during the run
    zst,        \* zstd decoder: "start" (between frames) | "frame" (inside one)
    ibuf,       \* bytes the value decoder has read and not decoded yet
    stdout,     \* text records written to os.Stdout
    finished,   \* number of enc.Finish() calls
    sawEOF      \* stages that have seen end-of-stream on their input handoff

pipeVars == <<envelope, idx, exStop, exWrites, pipeA, pipeB, aGot, pc, res, wg,
              proc, stderr, raised, zst, ibuf, stdout, finished, sawEOF>>

vars == <<bvmVars, sizeVars, pipeVars>>

----------------------------------------------------------------------------
(* Helpers *)

Min(a, b) == IF a < b THEN a ELSE b

Take(s, k) == SubSeq(s, 1, k)

Drop(s, k) == SubSeq(s, k + 1, Len(s))

IsPrefix(s, t) == Len(s) <= Len(t) /\ s = Take(t, Len(s))

\* a buffer of length L whose content is unspecified: 0 stands for "untouched"
Blank(L) == [i \in 1..L |-> 0]

----------------------------------------------------------------------------
(* Bounds *)

MaxSrcLen == 2      \* longest wrapped source content
MaxBufLen == 6      \* longest buffer handed to Read

SrcBytes == {17, 224}

----------------------------------------------------------------------------
(* bvmReader *)

\* var bvm = [...]byte{0xE0, 0x01, 0x00, 0xEA}
bvm == <<224, 1, 0, 234>>

BvmLen == 4

\* What one Read(q), len(q) = m, of the wrapped io.Reader may answer: k bytes
\* and an error.  A reader may report io.EOF or a failure together with its
\* last bytes or on a call of its own; after an error it keeps answering it.
SrcOutcomes(m) ==
    CASE srcState = "eof"    -> {[k |-> 0, err |-> "EOF"]}
      [] srcState = "broken" -> {[k |-> 0, err |-> "ERR"]}
      [] OTHER ->
            {[k |-> k, err |-> "nil"] : k \in 1..Min(m, Len(src))}
              \cup (IF m = 0 /\ Len(src) > 0 THEN {[k |-> 0, err |-> "nil"]} ELSE {})
              \cup (IF Len(src) <= m THEN {[k |-> Len(src), err |-> "EOF"]} ELSE {})
              \cup {[k |-> k, err |-> "ERR"] : k \in 0..Min(m, Len(src))}

\* Mutant of bvmRead: the bytes read so far are reported together with the error.
bvmRead_countOnError(n0, L, o) ==
    IF n0 < BvmLen
    THEN LET n    == Min(L, BvmLen - n0)
             mark == SubSeq(bvm, n0 + 1, n0 + n)
             n1   == n0 + Len(mark)
         IN  IF n = L
             THEN [n |-> n, err |-> "nil", rn |-> n1, buf |-> mark, read |-> FALSE]
             ELSE LET full == mark \o Take(src, o.k) \o Blank(L - n - o.k)
                  IN  IF o.err # "nil"
                      THEN [n |-> n + o.k, err |-> o.err, rn |-> n1, buf |-> full, read |-> TRUE]
                      ELSE [n |-> n + o.k, err |-> "nil", rn |-> n1, buf |-> full, read |-> TRUE]
    ELSE [n |-> o.k, err |-> o.err, rn |-> n0,
          buf |-> Take(src, o.k) \o Blank(L - o.k), read |-> TRUE]

\* Mutant of bvmRead: the marker is always copied from its first byte.
bvmRead_fromStart(n0, L, o) ==
    IF n0 < BvmLen
    THEN LET n    == Min(L, BvmLen - n0)
             mark == SubSeq(bvm, 1, n)
             n1   == n0 + Len(mark)
         IN  IF n = L
             THEN [n |-> n, err |-> "nil", rn |-> n1, buf |-> mark, read |-> FALSE]
             ELSE LET full == mark \o Take(src, o.k) \o Blank(L - n - o.k)
                  IN  IF o.err # "nil"
                      THEN [n |-> 0, err |-> o.err, rn |-> n1, buf |-> full, read |-> TRUE]
                      ELSE [n |-> n + o.k, err |-> "nil", rn |-> n1, buf |-> full, read |-> TRUE]
    ELSE [n |-> o.k, err |-> o.err, rn |-> n0,
          buf |-> Take(src, o.k) \o Blank(L - o.k), read |-> TRUE]

\* Mutant of bvmRead: the spanning read returns the count of the source alone.
bvmRead_sourceCountOnly(n0, L, o) ==
    IF n0 < BvmLen
    THEN LET n    == Min(L, BvmLen - n0)
             mark == SubSeq(bvm, n0 + 1, n0 + n)
             n1   == n0 + Len(mark)
         IN  IF n = L
             THEN [n |-> n, err |-> "nil", rn |-> n1, buf |-> mark, read |-> FALSE]
             ELSE LET full == mark \o Take(src, o.k) \o Blank(L - n - o.k)
                  IN  IF o.err # "nil"
                      THEN [n |-> 0, err |-> o.err, rn |-> n1, buf |-> full, read |-> TRUE]
                      ELSE [n |-> o.k, err |-> "nil", rn |-> n1, buf |-> full, read |-> TRUE]
    ELSE [n |-> o.k, err |-> o.err, rn |-> n0,
          buf |-> Take(src, o.k) \o Blank(L - o.k), read |-> TRUE]

\* Mutant of bvmRead: r.n counts the source bytes of the spanning read too.
bvmRead_countAll(n0, L, o) ==
    IF n0 < BvmLen
    THEN LET n    == Min(L, BvmLen - n0)
             mark == SubSeq(bvm, n0 + 1, n0 + n)
             n1   == n0 + Len(mark)
         IN  IF n = L
             THEN [n |-> n, err |-> "nil", rn |-> n1, buf |-> mark, read |-> FALSE]
             ELSE LET full == mark \o Take(src, o.k) \o Blank(L - n - o.k)
                  IN  IF o.err # "nil"
                      THEN [n |-> 0, err |-> o.err, rn |-> n1, buf |-> full, read |-> TRUE]
                      ELSE [n |-> n + o.k, err |-> "nil", rn |-> n1 + o.k, buf |-> full, read |-> TRUE]
    ELSE [n |-> o.k, err |-> o.err, rn |-> n0,
          buf |-> Take(src, o.k) \o Blank(L - o.k), read |-> TRUE]

\* Mutant of bvmRead: r.n is advanced only after the source was read without error.
bvmRead_lateCount(n0, L, o) ==
    IF n0 < BvmLen
    THEN LET n    == Min(L, BvmLen - n0)
             mark == SubSeq(bvm, n0 + 1, n0 + n)
             n1   == n0 + Len(mark)
         IN  IF n = L
             THEN [n |-> n, err |-> "nil", rn |-> n1, buf |-> mark, read |-> FALSE]
             ELSE LET full == mark \o Take(src, o.k) \o Blank(L - n - o.k)
                  IN  IF o.err # "nil"
                      THEN [n |-> 0, err |-> o.err, rn |-> n0, buf |-> full, read |-> TRUE]
                      ELSE [n |-> n + o.k, err |-> "nil", rn |-> n1, buf |-> full, read |-> TRUE]
    ELSE [n |-> o.k, err |-> o.err, rn |-> n0,
          buf |-> Take(src, o.k) \o Blank(L - o.k), read |-> TRUE]

\* func (r *bvmReader) Read(p []byte) (n int, err error), on a buffer of
\* length L, o being the answer of the wrapped source should Read ask it.
\* Yields the returned count and error, the new r.n, the buffer as left to
\* the caller and whether the wrapped source was read.
bvmRead(n0, L, o) ==
    IF n0 < BvmLen
    THEN LET n    == Min(L, BvmLen - n0)
             mark == SubSeq(bvm, n0 + 1, n0 + n)
             n1   == n0 + Len(mark)
         IN  IF n = L
             THEN [n |-> n, err |-> "nil", rn |-> n1, buf |-> mark, read |-> FALSE]
             ELSE LET full == mark \o Take(src, o.k) \o Blank(L - n - o.k)
                  IN  IF o.err # "nil"
                      THEN [n |-> 0, err |-> o.err, rn |-> n1, buf |-> full, read |-> TRUE]
                      ELSE [n |-> n + o.k, err |-> "nil", rn |-> n1, buf |-> full, read |-> TRUE]
    ELSE [n |-> o.k, err |-> o.err, rn |-> n0,
          buf |-> Take(src, o.k) \o Blank(L - o.k), read |-> TRUE]

\* no Read call yet
NoCall == [n0 |-> 0, len |-> 0, k |-> 0, err |-> "none", data |-> <<>>]

\* length of the buffer slice Read hands to the wrapped source
SrcSlice(n0, L) == IF n0 < BvmLen THEN L - Min(L, BvmLen - n0) ELSE L

\* One call of Read by the consumer, with a buffer of length L.
ReadCall(L) ==
    \E o \in SrcOutcomes(SrcSlice(rn, L)) :
        LET r == bvmRead(rn, L, o) IN
        /\ rn' = r.rn
        /\ p' = r.buf
        /\ retN' = r.n
        /\ retErr' = r.err
        /\ srcCalls' = IF r.read THEN 1 ELSE 0
        /\ got' = got \o Take(r.buf, r.n)
        /\ ended' = (ended \/ r.err # "nil")
        /\ call' = [n0 |-> rn, len |-> L,
                    k |-> IF r.read THEN o.k ELSE 0,
                    err |-> IF r.read THEN o.err ELSE "none",
                    data |-> IF r.read THEN Take(src, o.k) ELSE <<>>]
        /\ IF r.read
           THEN /\ delivered' = delivered \o Take(src, o.k)
                /\ src' = IF o.err = "nil" THEN Drop(src, o.k) ELSE <<>>
                /\ srcState' = CASE o.err = "EOF" -> "eof"
                                 [] o.err = "ERR" -> "broken"
                                 [] OTHER -> srcState
           ELSE UNCHANGED <<delivered, src, srcState>>
        /\ UNCHANGED <<sizeVars, pipeVars>>

BvmRead == \E L \in 0..MaxBufLen : ReadCall(L)

\* newBVMReader(input): n = 0, over any source content
SrcContents == UNION {[1..k -> SrcBytes] : k \in 0..MaxSrcLen}

BvmStart ==
    /\ src \in SrcContents
    /\ srcState = "open"
    /\ rn = 0
    /\ p = <<>>
    /\ retN = 0
    /\ retErr = "nil"
    /\ srcCalls = 0
    /\ got = <<>>
    /\ delivered = <<>>
    /\ ended = FALSE
    /\ call = NoCall

BvmIdle ==
    /\ src = <<>>
    /\ srcState = "open"
    /\ rn = 0
    /\ p = <<>>
    /\ retN = 0
    /\ retErr = "nil"
    /\ srcCalls = 0
    /\ got = <<>>
    /\ delivered = <<>>
    /\ ended = FALSE
    /\ call = NoCall

----------------------------------------------------------------------------
(* sizeWithoutTrailer and the start of main *)

MaxSmallSize == 6   \* object sizes 4..MaxSmallSize are tried next to the large ones

\* Integers wider than the checker's own are kept as little-endian sequences
\* of 16-bit limbs: 2 limbs a uint32, 4 limbs an int64 in two's complement,
\* 5 limbs a natural number wide enough for the sums the claims compare.
Base == 256 * 256

RECURSIVE AddLimbs(_, _, _, _)
AddLimbs(a, b, i, carry) ==
    IF i > Len(a) THEN <<>>
    ELSE LET t == a[i] + b[i] + carry
         IN  <<t % Base>> \o AddLimbs(a, b, i + 1, t \div Base)

RECURSIVE SubLimbs(_, _, _, _)
SubLimbs(a, b, i, borrow) ==
    IF i > Len(a) THEN <<>>
    ELSE LET t == a[i] - b[i] - borrow
         IN  <<t % Base>> \o SubLimbs(a, b, i + 1, IF t < 0 THEN 1 ELSE 0)

\* int64 subtraction: modulo 2^64, the final borrow is dropped
Sub64(a, b) == SubLimbs(a, b, 1, 0)

\* an int64 from a small non-negative int
Small64(k) == <<k, 0, 0, 0>>

IsNeg64(a) == a[4] >= Base \div 2

IsZero64(a) == a = Small64(0)

\* int64(x) of a uint32 x: zero extension
Int64OfUint32(x) == <<x[1], x[2], 0, 0>>

\* int64(int32(x)) of a uint32 x: sign extension
Int64OfInt32(x) ==
    IF x[2] >= Base \div 2 THEN <<x[1], x[2], Base - 1, Base - 1>>
    ELSE <<x[1], x[2], 0, 0>>

\* natural numbers, 5 limbs, no wrap-around
Nat5(a) == [i \in 1..5 |-> IF i <= Len(a) THEN a[i] ELSE 0]

AddNat(a, b) == AddLimbs(Nat5(a), Nat5(b), 1, 0)

RECURSIVE LessFrom(_, _, _)
LessFrom(a, b, i) ==
    IF i = 0 THEN FALSE
    ELSE IF a[i] # b[i] THEN a[i] < b[i] ELSE LessFrom(a, b, i - 1)

LessNat(a, b) == LessFrom(Nat5(a), Nat5(b), 5)

ObjSizes ==
    {Small64(k) : k \in 4..MaxSmallSize}
        \cup {Small64(260),
              <<3, Base \div 2, 0, 0>>,                      \* 2^31 + 3
              <<3, 0, 1, 0>>,                                \* 2^32 + 3
              <<4, 0, 1, 0>>,                                \* 2^32 + 4
              <<Base - 1, Base - 1, Base - 1, Base \div 2 - 1>>}  \* 2^63 - 1

TailBytes == {0, 1, 128, 255}

\* binary.LittleEndian.Uint32(data), as a uint32
Uint32LE(data) == <<data[1] + 256 * data[2], data[3] + 256 * data[4]>>

\* The trailer offset the object's last 4 bytes hold.
TrailerOffset == Uint32LE(tail)

\* totalSize - offset - 4 < 0, over the natural numbers
LengthNegative == LessNat(objSize, AddNat(TrailerOffset, <<4>>))

\* the int64 x is the number totalSize - offset - 4 >= 0
IsExactLength(x) ==
    /\ ~IsNeg64(x)
    /\ AddNat(AddNat(x, TrailerOffset), <<4>>) = Nat5(objSize)

\* The mutant of sizeWithoutTrailer: the offset converted through int32.
sizeWithoutTrailer_int32(size, data, io) ==
    CASE io.stat = "ERR" -> [size |-> Sub64(Small64(0), Small64(1)), err |-> "ERR"]
      [] io.readAt = "ERR" -> [size |-> Sub64(Small64(0), Small64(1)), err |-> "ERR"]
      [] OTHER ->
            [size |-> Sub64(Sub64(size, Int64OfInt32(Uint32LE(data))), Small64(4)),
             err |-> "nil"]

\* func sizeWithoutTrailer(client, bucket, object) (int64, error), given the
\* object's size, the 4 bytes ReadAt(data, stat.Size-4) yields and what Stat
\* and ReadAt answer.  io.EOF from ReadAt is not an error to it.
sizeWithoutTrailer(size, data, io) ==
    CASE io.stat = "ERR" -> [size |-> Sub64(Small64(0), Small64(1)), err |-> "ERR"]
      [] io.readAt = "ERR" -> [size |-> Sub64(Small64(0), Small64(1)), err |-> "ERR"]
      [] OTHER ->
            [size |-> Sub64(Sub64(size, Int64OfUint32(Uint32LE(data))), Small64(4)),
             err |-> "nil"]

ProbeIO ==
    {[get |-> "nil", stat |-> "nil", readAt |-> "nil"],
     [get |-> "nil", stat |-> "nil", readAt |-> "EOF"],
     [get |-> "nil", stat |-> "nil", readAt |-> "ERR"],
     [get |-> "nil", stat |-> "ERR", readAt |-> "nil"],
     [get |-> "ERR", stat |-> "nil", readAt |-> "nil"]}

\* main line 70: size, err := sizeWithoutTrailer(client, bucket, object).
\* A failing GetObject inside it calls exit; otherwise the probe handle is
\* closed on return (defer obj.Close()).
Probe ==
    /\ szPc = "start"
    /\ \E io \in ProbeIO :
         /\ szIO' = io
         /\ IF io.get = "ERR"
            THEN /\ szPc' = "exited"
                 /\ UNCHANGED <<szRet, szErr, hProbe>>
            ELSE LET r == sizeWithoutTrailer(objSize, tail, io) IN
                 /\ szPc' = "probed"
                 /\ szRet' = r.size
                 /\ szErr' = r.err
                 /\ hProbe' = "closed"
    /\ UNCHANGED <<objSize, tail, lrN, lrLast, hStream>>
    /\ UNCHANGED <<bvmVars, pipeVars>>

\* main lines 71-82: exit on the probe's error, else open the object again
\* and bound the read: inputWithoutTrailer := &io.LimitedReader{R: obj, N: size}
MainOpen ==
    /\ szPc = "probed"
    /\ IF szErr # "nil"
       THEN /\ szPc' = "exited"
            /\ UNCHANGED <<lrN, hStream>>
       ELSE \E getErr \in BOOLEAN :
              IF getErr
              THEN /\ szPc' = "exited"
                   /\ UNCHANGED <<lrN, hStream>>
              ELSE /\ szPc' = "streaming"
                   /\ hStream' = "open"
                   /\ lrN' = szRet
    /\ UNCHANGED <<objSize, tail, szIO, szRet, szErr, lrLast, hProbe>>
    /\ UNCHANGED <<bvmVars, pipeVars>>

\* io.LimitedReader.Read(q), len(q) = L, over the object: io.EOF once N <= 0,
\* else at most N bytes of the object.
LimitedReaderRead(N, L) ==
    IF IsNeg64(N) \/ IsZero64(N)
    THEN {[k |-> 0, err |-> "EOF"]}
    ELSE {[k |-> IF LessNat(N, <<L>>) THEN N[1] ELSE L, err |-> "nil"],
          [k |-> 0, err |-> "ERR"]}

LimitedRead ==
    /\ szPc = "streaming"
    /\ lrLast.err = "nil"
    /\ \E L \in 1..MaxBufLen :
         \E o \in LimitedReaderRead(lrN, L) :
            /\ lrLast' = [k |-> lrLast.k + o.k, err |-> o.err]
            /\ lrN' = Sub64(lrN, Small64(o.k))
    /\ lrLast.k < MaxBufLen
    /\ UNCHANGED <<objSize, tail, szPc, szIO, szRet, szErr, hProbe, hStream>>
    /\ UNCHANGED <<bvmVars, pipeVars>>

SizeStart ==
    /\ objSize \in ObjSizes
    /\ tail \in [1..4 -> TailBytes]
    /\ szPc = "start"
    /\ szIO = [get |-> "nil", stat |-> "nil", readAt |-> "nil"]
    /\ szRet = Small64(0)
    /\ szErr = "nil"
    /\ lrN = Small64(0)
    /\ lrLast = [k |-> 0, err |-> "nil"]
    /\ hProbe = "none"
    /\ hStream = "none"

SizeIdle ==
    /\ objSize = Small64(4)
    /\ tail = <<0, 0, 0, 0>>
    /\ szPc = "start"
    /\ szIO = [get |-> "nil", stat |-> "nil", readAt |-> "nil"]
    /\ szRet = Small64(0)
    /\ szErr = "nil"
    /\ lrN = Small64(0)
    /\ lrLast = [k |-> 0, err |-> "nil"]
    /\ hProbe = "none"
    /\ hStream = "none"

\* main line 86: the probe has answered and closed its handle (line 144), the
\* object is open again for the streamed read (line 75) and is closed by the
\* deferred obj.Close() of line 79.
SizeStreaming ==
    /\ objSize = Small64(4)
    /\ tail = <<0, 0, 0, 0>>
    /\ szPc = "streaming"
    /\ szIO = [get |-> "nil", stat |-> "nil", readAt |-> "nil"]
    /\ szRet = Small64(0)
    /\ szErr = "nil"
    /\ lrN = Small64(0)
    /\ lrLast = [k |-> 0, err |-> "nil"]
    /\ hProbe = "closed"
    /\ hStream = "open"

----------------------------------------------------------------------------
(* Data formats of the pipeline *)

MaxRecords == 2     \* most top-level records of an envelope

Stages == {"extract", "decompress", "dump"}

\* Compressed bytes: 1 opens a frame, 2 and 3 are the frame's block.  A frame
\* is <<1, 2>> or <<1, 3>>; anything else is malformed compressed data.
FrameHeader == 1

Block == {2, 3}

\* Decompressed bytes of a block.  10 is a whole one-byte value, 11 the first
\* byte of a two-byte value whose second byte must be 10.
Expand(c) == IF c = 2 THEN <<10>> ELSE <<11>>

\* Blob contents tried: empty, whole frames, a frame cut at the blob boundary,
\* a blob of two frames.
BlobContents ==
    {<<>>, <<1, 2>>, <<1, 3>>, <<1>>, <<2>>, <<1, 2, 1, 3>>}

\* A top-level record as ion.Reader sees it: a blob, a value of another type,
\* or bytes that do not parse ("bad").
Records ==
    {[kind |-> "blob", val |-> b] : b \in BlobContents}
        \cup {[kind |-> "other", val |-> <<>>], [kind |-> "bad", val |-> <<>>]}

Envelopes == UNION {[1..n -> Records] : n \in 0..MaxRecords}

RECURSIVE Concat(_)
Concat(ss) == IF ss = <<>> THEN <<>> ELSE Head(ss) \o Concat(Tail(ss))

AllBlobs(env) == \A i \in 1..Len(env) : env[i].kind = "blob"

BlobValues(env) == [i \in 1..Len(env) |-> env[i].val]

\* zstd, one compressed byte at a time: the decoder's next state, the bytes
\* it emits and whether the byte was acceptable there.
ZstdByte(st, c) ==
    IF st = "start"
    THEN [st |-> "frame", out |-> <<>>, ok |-> c = FrameHeader]
    ELSE [st |-> "start", out |-> IF c \in Block THEN Expand(c) ELSE <<>>,
          ok |-> c \in Block]

RECURSIVE ZstdFeed(_, _)
ZstdFeed(st, chunk) ==
    IF chunk = <<>> THEN [st |-> st, out |-> <<>>, ok |-> TRUE]
    ELSE LET one == ZstdByte(st, Head(chunk)) IN
         IF ~one.ok THEN [st |-> st, out |-> <<>>, ok |-> FALSE]
         ELSE LET more == ZstdFeed(one.st, Tail(chunk)) IN
              [st |-> more.st, out |-> one.out \o more.out, ok |-> more.ok]

\* The value decoder on the bytes it holds: a value and the bytes it took,
\* "need" more input, or "bad" encoding.
DecodeFront(b) ==
    CASE b = <<>>                -> [what |-> "need", val |-> "", used |-> 0]
      [] b[1] = 10               -> [what |-> "value", val |-> "a", used |-> 1]
      [] b[1] = 11 /\ Len(b) = 1 -> [what |-> "need", val |-> "", used |-> 0]
      [] b[1] = 11 /\ b[2] = 10  -> [what |-> "value", val |-> "b", used |-> 2]
      [] OTHER                   -> [what |-> "bad", val |-> "", used |-> 0]

\* The text encoder's rendering of a value.
Render(v) == IF v = "a" THEN "{a:1}" ELSE "{b:2}"

\* The whole of a compressed stream decompressed at once, frame by frame.
RECURSIVE DecompressAll(_)
DecompressAll(cs) ==
    IF cs = <<>> THEN [ok |-> TRUE, out |-> <<>>]
    ELSE IF Len(cs) >= 2 /\ cs[1] = FrameHeader /\ cs[2] \in Block
         THEN LET rest == DecompressAll(Drop(cs, 2)) IN
              [ok |-> rest.ok, out |-> Expand(cs[2]) \o rest.out]
         ELSE [ok |-> FALSE, out |-> <<>>]

\* The whole of a decompressed stream decoded at once, value by value.
RECURSIVE DecodeAll(_)
DecodeAll(bs) ==
    IF bs = <<>> THEN [ok |-> TRUE, vals |-> <<>>]
    ELSE LET d == DecodeFront(bs) IN
         IF d.what # "value" THEN [ok |-> FALSE, vals |-> <<>>]
         ELSE LET rest == DecodeAll(Drop(bs, d.used)) IN
              [ok |-> rest.ok, vals |-> <<d.val>> \o rest.vals]

\* The text records the envelope's blobs stand for, when they decode.
Expected(env) ==
    LET z == DecompressAll(Concat(BlobValues(env)))
        d == DecodeAll(z.out)
    IN  [ok |-> AllBlobs(env) /\ z.ok /\ d.ok,
         text |-> [i \in 1..Len(d.vals) |-> Render(d.vals[i])]]

----------------------------------------------------------------------------
(* io.Pipe: a Write blocks until reads have taken all of its bytes *)

NewPipe == [buf |-> <<>>, writing |-> FALSE, closed |-> FALSE, failed |-> FALSE]

\* PipeWriter.Write(val) is entered: the bytes are offered to the read side.
PipeOffer(pp, val) == [pp EXCEPT !.buf = val, !.writing = TRUE]

\* Sizes one PipeReader.Read may take from the pending Write; a Write of no
\* bytes is met by a Read of no bytes.
ReadSizes(pp) == IF pp.buf = <<>> THEN {0} ELSE 1..Len(pp.buf)

\* Mutant of PipeTake: the Write returns after the first Read, whatever is
\* left of its bytes.
PipeTake_released(pp, k) == [pp EXCEPT !.buf = Drop(@, k), !.writing = FALSE]

\* PipeReader.Read takes k bytes; the Write returns once none are left.
PipeTake(pp, k) == [pp EXCEPT !.buf = Drop(@, k), !.writing = (Len(pp.buf) > k)]

\* PipeWriter.Close()
PipeClose(pp) == [pp EXCEPT !.closed = TRUE]

\* The read side is at end-of-stream: closed, and no Write pending.
PipeAtEOF(pp) == pp.closed /\ ~pp.writing

----------------------------------------------------------------------------
(* extract *)

\* What r.Next() may answer: the next record, or FALSE because the input
\* ended ("eof"), a record does not parse ("parser") or reading the remote
\* source failed ("source").  The reader keeps the error for r.Err().
NextOutcomes ==
    {[more |-> FALSE, why |-> "source", kind |-> "", val |-> <<>>]}
        \cup (IF idx = Len(envelope)
              THEN {[more |-> FALSE, why |-> "eof", kind |-> "", val |-> <<>>]}
              ELSE IF envelope[idx + 1].kind = "bad"
                   THEN {[more |-> FALSE, why |-> "parser", kind |-> "", val |-> <<>>]}
                   ELSE {[more |-> TRUE, why |-> "", kind |-> envelope[idx + 1].kind,
                          val |-> envelope[idx + 1].val]})

\* Mutants of extractOnNext: a record of another type is skipped; a separator
\* follows every blob.
extractOnNext_skip(o) ==
    IF ~o.more THEN [act |-> "return", err |-> "nil", val |-> <<>>]
    ELSE IF o.kind # "blob" THEN [act |-> "skip", err |-> "nil", val |-> <<>>]
    ELSE [act |-> "write", err |-> "nil", val |-> o.val]

extractOnNext_separator(o) ==
    IF ~o.more THEN [act |-> "return", err |-> "nil", val |-> <<>>]
    ELSE IF o.kind # "blob"
         THEN [act |-> "return", err |-> "unexpected token type", val |-> <<>>]
    ELSE [act |-> "write", err |-> "nil", val |-> Append(o.val, 0)]

\* One turn of extract's loop, for r.Next() (for r.Next() { ... } return nil):
\* the loop ends with nil whenever Next is false, r.Err() is never asked; a
\* record that is no blob returns an error; a blob is written out.
extractOnNext(o) ==
    IF ~o.more THEN [act |-> "return", err |-> "nil", val |-> <<>>]
    ELSE IF o.kind # "blob"
         THEN [act |-> "return", err |-> "unexpected token type", val |-> <<>>]
    ELSE [act |-> "write", err |-> "nil", val |-> o.val]

\* extract calls r.Next() and acts on the answer, up to out.Write(val).
ExtractNext ==
    /\ proc = "running"
    /\ pc["extract"] = "next"
    /\ \E o \in NextOutcomes :
         LET d == extractOnNext(o) IN
         /\ idx' = IF o.more THEN idx + 1 ELSE idx
         /\ exStop' = CASE o.more -> exStop
                        [] o.why = "eof" -> "eof"
                        [] OTHER -> "error"
         /\ raised' = raised \cup
                CASE ~o.more /\ o.why # "eof" -> {o.why}
                  [] o.more /\ d.act = "return" -> {"format"}
                  [] OTHER -> {}
         /\ CASE d.act = "return" ->
                    /\ pc' = [pc EXCEPT !["extract"] = "returned"]
                    /\ res' = [res EXCEPT !["extract"] = d.err]
                    /\ UNCHANGED <<pipeA, exWrites>>
              [] d.act = "write" ->
                    /\ pc' = [pc EXCEPT !["extract"] = "write"]
                    /\ pipeA' = PipeOffer(pipeA, d.val)
                    /\ exWrites' = Append(exWrites, d.val)
                    /\ UNCHANGED res
              [] OTHER -> UNCHANGED <<pc, res, pipeA, exWrites>>
    /\ UNCHANGED <<envelope, pipeB, aGot, wg, proc, stderr, zst, ibuf, stdout,
                   finished, sawEOF>>
    /\ UNCHANGED <<bvmVars, sizeVars>>

\* Mutant of ExtractWritten: the error of out.Write is ignored.
ExtractWritten_ignore ==
    /\ proc = "running"
    /\ pc["extract"] = "write"
    /\ ~pipeA.writing
    /\ pc' = [pc EXCEPT !["extract"] = "next"]
    /\ UNCHANGED <<envelope, idx, exStop, exWrites, pipeA, pipeB, aGot, res, wg,
                   proc, stderr, raised, zst, ibuf, stdout, finished, sawEOF>>
    /\ UNCHANGED <<bvmVars, sizeVars>>

\* out.Write(val) returns: with an error extract returns it, else it loops.
ExtractWritten ==
    /\ proc = "running"
    /\ pc["extract"] = "write"
    /\ ~pipeA.writing
    /\ IF pipeA.failed
       THEN /\ pc' = [pc EXCEPT !["extract"] = "returned"]
            /\ res' = [res EXCEPT !["extract"] = "write failed"]
       ELSE /\ pc' = [pc EXCEPT !["extract"] = "next"]
            /\ UNCHANGED res
    /\ UNCHANGED <<envelope, idx, exStop, exWrites, pipeA, pipeB, aGot, wg, proc,
                   stderr, raised, zst, ibuf, stdout, finished, sawEOF>>
    /\ UNCHANGED <<bvmVars, sizeVars>>

\* A sink standing for any io.Writer: it takes the whole Write ...
SinkAccept ==
    /\ pipeA.writing
    /\ aGot' = aGot \o pipeA.buf
    /\ pipeA' = PipeTake(pipeA, Len(pipeA.buf))
    /\ UNCHANGED <<envelope, idx, exStop, exWrites, pipeB, pc, res, wg, proc,
                   stderr, raised, zst, ibuf, stdout, finished, sawEOF>>
    /\ UNCHANGED <<bvmVars, sizeVars>>

\* ... or rejects it with an error.
SinkReject ==
    /\ pipeA.writing
    /\ pipeA' = [pipeA EXCEPT !.buf = <<>>, !.writing = FALSE, !.failed = TRUE]
    /\ raised' = raised \cup {"sink"}
    /\ UNCHANGED <<envelope, idx, exStop, exWrites, pipeB, aGot, pc, res, wg, proc,
                   stderr, zst, ibuf, stdout, finished, sawEOF>>
    /\ UNCHANGED <<bvmVars, sizeVars>>

----------------------------------------------------------------------------
(* decompress *)

\* io.Copy(out, dec): the decoder reads a chunk of stream A; what it
\* decompresses is written to stream B; malformed input is an error.
DecompRead ==
    /\ proc = "running"
    /\ pc["decompress"] = "read"
    /\ pipeA.writing
    /\ \E k \in ReadSizes(pipeA) :
         LET chunk == Take(pipeA.buf, k)
             f     == ZstdFeed(zst, chunk)
         IN  /\ pipeA' = PipeTake(pipeA, k)
             /\ aGot' = aGot \o chunk
             /\ IF ~f.ok
                THEN /\ raised' = raised \cup {"zstd"}
                     /\ res' = [res EXCEPT !["decompress"] = "zstd: corrupt input"]
                     /\ pc' = [pc EXCEPT !["decompress"] = "returned"]
                     /\ UNCHANGED <<zst, pipeB>>
                ELSE /\ zst' = f.st
                     /\ UNCHANGED <<raised, res>>
                     /\ IF f.out # <<>>
                        THEN /\ pipeB' = PipeOffer(pipeB, f.out)
                             /\ pc' = [pc EXCEPT !["decompress"] = "write"]
                        ELSE UNCHANGED <<pipeB, pc>>
    /\ UNCHANGED <<envelope, idx, exStop, exWrites, wg, proc, stderr, ibuf, stdout,
                   finished, sawEOF>>
    /\ UNCHANGED <<bvmVars, sizeVars>>

\* The decoder meets end-of-stream on stream A: between frames io.Copy ends
\* with nil, inside a frame with an unexpected-EOF error.
DecompEOF ==
    /\ proc = "running"
    /\ pc["decompress"] = "read"
    /\ PipeAtEOF(pipeA)
    /\ sawEOF' = sawEOF \cup {"decompress"}
    /\ pc' = [pc EXCEPT !["decompress"] = "returned"]
    /\ IF zst = "start"
       THEN /\ res' = [res EXCEPT !["decompress"] = "nil"]
            /\ UNCHANGED raised
       ELSE /\ res' = [res EXCEPT !["decompress"] = "zstd: unexpected EOF"]
            /\ raised' = raised \cup {"zstd"}
    /\ UNCHANGED <<envelope, idx, exStop, exWrites, pipeA, pipeB, aGot, wg, proc,
                   stderr, zst, ibuf, stdout, finished>>
    /\ UNCHANGED <<bvmVars, sizeVars>>

\* out.Write on stream B returns and io.Copy reads on.
DecompWritten ==
    /\ proc = "running"
    /\ pc["decompress"] = "write"
    /\ ~pipeB.writing
    /\ pc' = [pc EXCEPT !["decompress"] = "read"]
    /\ UNCHANGED <<envelope, idx, exStop, exWrites, pipeA, pipeB, aGot, res, wg,
                   proc, stderr, raised, zst, ibuf, stdout, finished, sawEOF>>
    /\ UNCHANGED <<bvmVars, sizeVars>>

----------------------------------------------------------------------------
(* dump *)

\* dec.Decode() needs more input and reads stream B.
DumpRead ==
    /\ proc = "running"
    /\ pc["dump"] = "decode"
    /\ DecodeFront(ibuf).what = "need"
    /\ pipeB.writing
    /\ \E k \in ReadSizes(pipeB) :
         /\ ibuf' = ibuf \o Take(pipeB.buf, k)
         /\ pipeB' = PipeTake(pipeB, k)
    /\ UNCHANGED <<envelope, idx, exStop, exWrites, pipeA, aGot, pc, res, wg, proc,
                   stderr, raised, zst, stdout, finished, sawEOF>>
    /\ UNCHANGED <<bvmVars, sizeVars>>

\* Mutant of DumpEOF: every end-of-stream ends the loop as ErrNoInput does.
DumpEOF_anyError ==
    /\ proc = "running"
    /\ pc["dump"] = "decode"
    /\ DecodeFront(ibuf).what = "need"
    /\ PipeAtEOF(pipeB)
    /\ sawEOF' = sawEOF \cup {"dump"}
    /\ pc' = [pc EXCEPT !["dump"] = "returned"]
    /\ \E ok \in BOOLEAN :
         /\ finished' = finished + 1
         /\ res' = [res EXCEPT !["dump"] = IF ok THEN "nil" ELSE "write failed"]
         /\ raised' = IF ok THEN raised ELSE raised \cup {"sink"}
    /\ UNCHANGED <<envelope, idx, exStop, exWrites, pipeA, pipeB, aGot, wg, proc,
                   stderr, zst, ibuf, stdout>>
    /\ UNCHANGED <<bvmVars, sizeVars>>

\* dec.Decode() meets end-of-stream on stream B.  With nothing pending it
\* answers ion.ErrNoInput: the loop breaks and enc.Finish() runs; inside a
\* value it is an error, which dump returns.
DumpEOF ==
    /\ proc = "running"
    /\ pc["dump"] = "decode"
    /\ DecodeFront(ibuf).what = "need"
    /\ PipeAtEOF(pipeB)
    /\ sawEOF' = sawEOF \cup {"dump"}
    /\ pc' = [pc EXCEPT !["dump"] = "returned"]
    /\ IF ibuf = <<>>
       THEN \E ok \in BOOLEAN :
              /\ finished' = finished + 1
              /\ res' = [res EXCEPT !["dump"] = IF ok THEN "nil" ELSE "write failed"]
              /\ raised' = IF ok THEN raised ELSE raised \cup {"sink"}
       ELSE /\ res' = [res EXCEPT !["dump"] = "ion: unexpected EOF"]
            /\ raised' = raised \cup {"decoder"}
            /\ UNCHANGED finished
    /\ UNCHANGED <<envelope, idx, exStop, exWrites, pipeA, pipeB, aGot, wg, proc,
                   stderr, zst, ibuf, stdout>>
    /\ UNCHANGED <<bvmVars, sizeVars>>

\* dec.Decode() answers from the bytes it holds: a value, which enc.Encode
\* writes to os.Stdout, or a decoding error; either error is returned.
DumpValue ==
    /\ proc = "running"
    /\ pc["dump"] = "decode"
    /\ LET d == DecodeFront(ibuf) IN
       /\ d.what # "need"
       /\ IF d.what = "bad"
          THEN /\ res' = [res EXCEPT !["dump"] = "ion: invalid value"]
               /\ raised' = raised \cup {"decoder"}
               /\ pc' = [pc EXCEPT !["dump"] = "returned"]
               /\ UNCHANGED <<ibuf, stdout>>
          ELSE \E ok \in BOOLEAN :
                 IF ok
                 THEN /\ stdout' = Append(stdout, Render(d.val))
                      /\ ibuf' = Drop(ibuf, d.used)
                      /\ UNCHANGED <<res, raised, pc>>
                 ELSE /\ res' = [res EXCEPT !["dump"] = "write failed"]
                      /\ raised' = raised \cup {"sink"}
                      /\ pc' = [pc EXCEPT !["dump"] = "returned"]
                      /\ UNCHANGED <<ibuf, stdout>>
    /\ UNCHANGED <<envelope, idx, exStop, exWrites, pipeA, pipeB, aGot, wg, proc,
                   stderr, zst, finished, sawEOF>>
    /\ UNCHANGED <<bvmVars, sizeVars>>

----------------------------------------------------------------------------
(* main: the three goroutines and wg.Wait *)

\* Mutant of exit: the error is printed and exit returns to its caller.
exit_returns(s) ==
    /\ stderr' = Append(stderr, res[s])
    /\ pc' = [pc EXCEPT ![s] = "deferred"]
    /\ UNCHANGED proc

\* func exit(err): fmt.Fprintln(os.Stderr, err); os.Exit(1).  The process
\* ends there: no deferred call of any goroutine runs.
exit(s) ==
    /\ stderr' = Append(stderr, res[s])
    /\ proc' = "exit1"
    /\ UNCHANGED pc

\* Mutant of StageCheck: the stage's error is not looked at.
StageCheck_ignore(s) ==
    /\ proc = "running"
    /\ pc[s] = "returned"
    /\ pc' = [pc EXCEPT ![s] = "deferred"]
    /\ UNCHANGED <<stderr, proc>>
    /\ UNCHANGED <<envelope, idx, exStop, exWrites, pipeA, pipeB, aGot, res, wg,
                   raised, zst, ibuf, stdout, finished, sawEOF>>
    /\ UNCHANGED <<bvmVars, sizeVars>>

\* err := stage(...); if err != nil { exit(err) }
StageCheck(s) ==
    /\ proc = "running"
    /\ pc[s] = "returned"
    /\ IF res[s] # "nil"
       THEN exit(s)
       ELSE /\ pc' = [pc EXCEPT ![s] = "deferred"]
            /\ UNCHANGED <<stderr, proc>>
    /\ UNCHANGED <<envelope, idx, exStop, exWrites, pipeA, pipeB, aGot, res, wg,
                   raised, zst, ibuf, stdout, finished, sawEOF>>
    /\ UNCHANGED <<bvmVars, sizeVars>>

\* Mutant of StageClose: the deferred Close is missing.
StageClose_missing(s) ==
    /\ proc = "running"
    /\ s \in {"extract", "decompress"}
    /\ pc[s] = "deferred"
    /\ pc' = [pc EXCEPT ![s] = "closed"]
    /\ UNCHANGED <<envelope, idx, exStop, exWrites, pipeA, pipeB, aGot, res, wg,
                   proc, stderr, raised, zst, ibuf, stdout, finished, sawEOF>>
    /\ UNCHANGED <<bvmVars, sizeVars>>

\* defer compWriter.Close() / defer decompWriter.Close(), run when the
\* goroutine's function returns.
StageClose(s) ==
    /\ proc = "running"
    /\ s \in {"extract", "decompress"}
    /\ pc[s] = "deferred"
    /\ pc' = [pc EXCEPT ![s] = "closed"]
    /\ IF s = "extract"
       THEN pipeA' = PipeClose(pipeA) /\ UNCHANGED pipeB
       ELSE pipeB' = PipeClose(pipeB) /\ UNCHANGED pipeA
    /\ UNCHANGED <<envelope, idx, exStop, exWrites, aGot, res, wg, proc, stderr,
                   raised, zst, ibuf, stdout, finished, sawEOF>>
    /\ UNCHANGED <<bvmVars, sizeVars>>

\* Mutant of StageDone: the deferred wg.Done() is missing.
StageDone_missing(s) ==
    /\ proc = "running"
    /\ pc[s] = IF s = "dump" THEN "deferred" ELSE "closed"
    /\ pc' = [pc EXCEPT ![s] = "done"]
    /\ UNCHANGED <<envelope, idx, exStop, exWrites, pipeA, pipeB, aGot, res, wg,
                   proc, stderr, raised, zst, ibuf, stdout, finished, sawEOF>>
    /\ UNCHANGED <<bvmVars, sizeVars>>

\* defer wg.Done(), the last deferred call of each goroutine.
StageDone(s) ==
    /\ proc = "running"
    /\ pc[s] = IF s = "dump" THEN "deferred" ELSE "closed"
    /\ pc' = [pc EXCEPT ![s] = "done"]
    /\ wg' = wg - 1
    /\ UNCHANGED <<envelope, idx, exStop, exWrites, pipeA, pipeB, aGot, res, proc,
                   stderr, raised, zst, ibuf, stdout, finished, sawEOF>>
    /\ UNCHANGED <<bvmVars, sizeVars>>

\* wg.Wait() returns and main returns: its deferred obj.Close() (line 79)
\* runs and the exit status is 0.
MainReturn ==
    /\ proc = "running"
    /\ wg = 0
    /\ proc' = "exit0"
    /\ hStream' = "closed"
    /\ UNCHANGED <<envelope, idx, exStop, exWrites, pipeA, pipeB, aGot, pc, res, wg,
                   stderr, raised, zst, ibuf, stdout, finished, sawEOF>>
    /\ UNCHANGED <<objSize, tail, szPc, szIO, szRet, szErr, lrN, lrLast, hProbe>>
    /\ UNCHANGED bvmVars

\* main lines 86-90: the pipes are made, wg.Add(3), the goroutines start.
PipeStart ==
    /\ envelope \in Envelopes
    /\ idx = 0
    /\ exStop = "none"
    /\ exWrites = <<>>
    /\ pipeA = NewPipe
    /\ pipeB = NewPipe
    /\ aGot = <<>>
    /\ pc = [s \in Stages |-> CASE s = "extract" -> "next"
                                [] s = "decompress" -> "read"
                                [] OTHER -> "decode"]
    /\ res = [s \in Stages |-> "none"]
    /\ wg = 3
    /\ proc = "running"
    /\ stderr = <<>>
    /\ raised = {}
    /\ zst = "start"
    /\ ibuf = <<>>
    /\ stdout = <<>>
    /\ finished = 0
    /\ sawEOF = {}

\* extract alone, writing to a sink: the other stages do not run.
ExtractStart ==
    /\ envelope \in Envelopes
    /\ idx = 0
    /\ exStop = "none"
    /\ exWrites = <<>>
    /\ pipeA = NewPipe
    /\ pipeB = NewPipe
    /\ aGot = <<>>
    /\ pc = [s \in Stages |-> IF s = "extract" THEN "next" ELSE "idle"]
    /\ res = [s \in Stages |-> "none"]
    /\ wg = 0
    /\ proc = "running"
    /\ stderr = <<>>
    /\ raised = {}
    /\ zst = "start"
    /\ ibuf = <<>>
    /\ stdout = <<>>
    /\ finished = 0
    /\ sawEOF = {}

PipeIdle ==
    /\ envelope = <<>>
    /\ idx = 0
    /\ exStop = "none"
    /\ exWrites = <<>>
    /\ pipeA = NewPipe
    /\ pipeB = NewPipe
    /\ aGot = <<>>
    /\ pc = [s \in Stages |-> "idle"]
    /\ res = [s \in Stages |-> "none"]
    /\ wg = 0
    /\ proc = "running"
    /\ stderr = <<>>
    /\ raised = {}
    /\ zst = "start"
    /\ ibuf = <<>>
    /\ stdout = <<>>
    /\ finished = 0
    /\ sawEOF = {}

----------------------------------------------------------------------------
(* Handoffs *)

Upstream == {"extract", "decompress"}

\* the handoff a stage writes, and the stage that reads it
Out(s) == IF s = "extract" THEN pipeA ELSE pipeB

Down(s) == IF s = "extract" THEN "decompress" ELSE "dump"

Failed(s) == res[s] \notin {"none", "nil"}

----------------------------------------------------------------------------
(* Specifications *)

BvmInit == BvmStart /\ SizeIdle /\ PipeIdle

BvmNext == BvmRead

SpecBvm == BvmInit /\ [][BvmNext]_vars

SizeInit == SizeStart /\ BvmIdle /\ PipeIdle

SizeNext == Probe \/ MainOpen \/ LimitedRead

SpecSize == SizeInit /\ [][SizeNext]_vars

ExtractInit == ExtractStart /\ BvmIdle /\ SizeIdle

ExtractNext_ == ExtractNext \/ ExtractWritten \/ SinkAccept \/ SinkReject

SpecExtract == ExtractInit /\ [][ExtractNext_]_vars

PipeInit == PipeStart /\ BvmIdle /\ SizeStreaming

ExtractStage ==
    ExtractNext \/ ExtractWritten \/ StageCheck("extract")
        \/ StageClose("extract") \/ StageDone("extract")

DecompressStage ==
    DecompRead \/ DecompEOF \/ DecompWritten \/ StageCheck("decompress")
        \/ StageClose("decompress") \/ StageDone("decompress")

DumpStage ==
    DumpRead \/ DumpEOF \/ DumpValue \/ StageCheck("dump") \/ StageDone("dump")

PipeNext == ExtractStage \/ DecompressStage \/ DumpStage \/ MainReturn

SpecPipe == PipeInit /\ [][PipeNext]_vars

\* The Go scheduler runs every goroutine that can run.
FairSpecPipe ==
    /\ SpecPipe
    /\ WF_vars(ExtractStage)
    /\ WF_vars(DecompressStage)
    /\ WF_vars(DumpStage)
    /\ WF_vars(MainReturn)

----------------------------------------------------------------------------
\* C1: chunking-invariance - whatever the buffer sizes, the bytes reported as
\* returned are always a prefix of marker ++ S, and once the stream has ended
\* (a Read returned an error or end-of-stream) they are exactly marker ++ S,
\* S being the bytes the wrapped source handed out.
C1_ChunkingInvariance ==
    /\ IsPrefix(got, bvm \o delivered)
    /\ ended => got = bvm \o delivered

\* C2: an offset that makes totalSize - offset - 4 negative makes
\* sizeWithoutTrailer fail: the probe never ends with a nil error, and the
\* run never goes on to stream the object as an empty payload region.
C2_NegativeLengthFails ==
    (szPc \in {"probed", "streaming"} /\ LengthNegative)
        => (szErr # "nil" /\ szPc # "streaming")

\* C9: when Stat and ReadAt succeed on an object of size >= 4 whose offset
\* leaves totalSize - offset - 4 >= 0, sizeWithoutTrailer returns exactly
\* that length, without wrap-around, and a nil error.
C9_ExactLength ==
    (/\ szPc \in {"probed", "streaming"}
     /\ szIO.stat = "nil" /\ szIO.readAt \in {"nil", "EOF"}
     /\ ~LessNat(objSize, <<4>>)
     /\ ~LengthNegative)
        => (IsExactLength(szRet) /\ szErr = "nil")

\* C9 witness: a probe that succeeded on an offset with the top bit set,
\* whose ReadAt reported io.EOF with the 4 bytes.
C9_Witness ==
    /\ szPc = "probed"
    /\ szIO.readAt = "EOF"
    /\ TrailerOffset[2] >= Base \div 2
    /\ ~LengthNegative
    /\ IsExactLength(szRet)
    /\ szErr = "nil"

----------------------------------------------------------------------------
\* C3: no error is swallowed - a run that ends with status 0 raised no
\* error, and extract does not return nil when its record iteration stopped
\* on an error instead of end of stream.
C3_NoErrorSwallowed ==
    /\ proc = "exit0" => raised = {}
    /\ res["extract"] = "nil" => exStop # "error"

\* C4: main returns normally (exit status 0) only if extract, decompress and
\* dump all returned nil.
C4_SuccessOnlyIfAllSucceed ==
    proc = "exit0" => \A s \in Stages : res[s] = "nil"

\* C4 witness: the last running stage returned an error after the other two
\* had finished, and the process ended with status 1.
C4_Witness ==
    /\ proc = "exit1"
    /\ wg = 1
    /\ Failed("dump")
    /\ pc["extract"] = "done" /\ pc["decompress"] = "done"

\* C5: when the envelope's blobs decode to v1..vk, a run that ends with
\* status 0 has written exactly the text records of v1..vk, in that order.
C5_OrderPreserved ==
    (proc = "exit0" /\ Expected(envelope).ok) => stdout = Expected(envelope).text

\* C6: on an envelope of blob records that the reader delivers whole, and
\* with a sink that accepts every write, extract writes one blob per record
\* in record order, the sink receives their concatenation and nothing else,
\* and extract returns nil.
C6_ExtractConcatenates ==
    (AllBlobs(envelope) /\ "source" \notin raised /\ ~pipeA.failed)
        => /\ exWrites = Take(BlobValues(envelope), idx)
           /\ aGot \o pipeA.buf = Concat(exWrites)
           /\ pc["extract"] = "returned"
                => /\ res["extract"] = "nil"
                   /\ exWrites = BlobValues(envelope)
                   /\ aGot = Concat(BlobValues(envelope))

\* C6 witness: extract returned from an envelope of several blobs, the first
\* of them not empty.
C6_Witness ==
    /\ pc["extract"] = "returned"
    /\ res["extract"] = "nil"
    /\ AllBlobs(envelope) /\ Len(envelope) >= 2 /\ envelope[1].val # <<>>
    /\ envelope[2].val # <<>>
    /\ exWrites = BlobValues(envelope)
    /\ aGot = envelope[1].val \o Concat(Tail(BlobValues(envelope)))

\* C7: once r.Next() has handed extract a record that is no blob, at
\* position i, extract has returned the error: the blobs before i were
\* written and nothing else, and no record after i is read.
C7_NonBlobAborts ==
    (idx >= 1 /\ envelope[idx].kind = "other")
        => /\ pc["extract"] = "returned"
           /\ res["extract"] = "unexpected token type"
           /\ exWrites = BlobValues(Take(envelope, idx - 1))
           /\ ~pipeA.writing
           /\ ~pipeA.failed => aGot = Concat(exWrites)

\* C7 witness: a non-blob record in second place, after a blob that was
\* written and taken by the sink.
C7_Witness ==
    /\ idx = 2
    /\ envelope[2].kind = "other"
    /\ envelope[1].val # <<>>
    /\ res["extract"] = "unexpected token type"
    /\ aGot = envelope[1].val

C10_Terminates == <>(proc # "running")

\* C10 witness: the process ended while extract was blocked in a write to
\* stream A whose reader had stopped on an error.
C10_Witness ==
    /\ proc = "exit1"
    /\ pc["extract"] = "write" /\ pipeA.writing
    /\ Failed("decompress")

----------------------------------------------------------------------------
(* The cases of a Read call, told from the record of the last call *)

\* marker bytes still to emit when the last call began
MarkerLeft == BvmLen - call.n0

\* the last call had a buffer longer than the marker bytes left: it spans the
\* marker/source boundary
Spanning == call.n0 < BvmLen /\ call.len > MarkerLeft

\* the last call had marker bytes left and a buffer they fill
MarkerOnly == call.n0 < BvmLen /\ call.len <= MarkerLeft /\ call # NoCall

\* the marker bytes a call starting at r.n = n0 copies first
MarkerFrom(n0, k) == SubSeq(bvm, n0 + 1, n0 + k)

\* C11: when the wrapped source answers an error (end-of-stream included) to
\* the read of a spanning call, the call returns count 0 and that error,
\* whatever count came with the error, although the marker bytes were copied
\* into the caller's buffer.
C11_SpanningErrorReturnsNothing ==
    (Spanning /\ call.err \in {"EOF", "ERR"})
        => /\ retN = 0
           /\ retErr = call.err
           /\ Take(p, MarkerLeft) = MarkerFrom(call.n0, MarkerLeft)

\* C11 witness: a spanning call that staged the last two marker bytes and
\* whose source answered one byte together with end-of-stream.
C11_Witness ==
    /\ Spanning /\ call.n0 = 2
    /\ call.err = "EOF" /\ call.k = 1
    /\ retN = 0 /\ retErr = "EOF"
    /\ Take(p, 2) = <<0, 234>>

\* C12: while marker bytes remain, a call whose buffer they fill returns the
\* next len(p) marker bytes, in order, with a nil error and without reading
\* the wrapped source; as long as marker bytes remain only marker bytes have
\* been returned, in order, and the wrapped source is read only by a call
\* that has emitted the last marker byte.
C12_MarkerFirst ==
    /\ MarkerOnly
         => /\ retN = call.len
            /\ retErr = "nil"
            /\ srcCalls = 0
            /\ p = MarkerFrom(call.n0, call.len)
            /\ rn = call.n0 + call.len
    /\ rn < BvmLen => (got = Take(bvm, rn) /\ delivered = <<>>)
    /\ srcCalls > 0 => rn = BvmLen

\* C12 witness: the second of two short calls, which returned 01 00 after the
\* first one returned E0; the source has not been read.
C12_Witness ==
    /\ MarkerOnly /\ call.n0 = 1 /\ call.len = 2
    /\ p = <<1, 0>>
    /\ got = <<224, 1, 0>>
    /\ src # <<>> /\ delivered = <<>>

\* C13: a call whose buffer is longer than the r marker bytes left puts these
\* r bytes first, reads the wrapped source exactly once, into the rest of the
\* buffer, and when that read succeeds with nr bytes returns r + nr, the
\* source bytes right behind the marker bytes.
C13_SpanningRead ==
    Spanning
        => /\ srcCalls = 1
           /\ call.k <= call.len - MarkerLeft
           /\ Take(p, MarkerLeft) = MarkerFrom(call.n0, MarkerLeft)
           /\ SubSeq(p, MarkerLeft + 1, MarkerLeft + call.k) = call.data
           /\ call.err = "nil"
                => /\ retN = MarkerLeft + call.k
                   /\ retErr = "nil"
                   /\ Take(p, retN) = MarkerFrom(call.n0, MarkerLeft) \o call.data

\* C13 witness: after one marker byte was returned, a call with a 5-byte
\* buffer returned the other three and two source bytes.
C13_Witness ==
    /\ Spanning /\ call.n0 = 1 /\ call.len = 5
    /\ call.err = "nil" /\ call.k = 2
    /\ retN = 5
    /\ p = <<1, 0, 234>> \o call.data
    /\ got = bvm \o delivered

\* a call that began with r.n = 4 is handed to the wrapped source as it is
PassedThrough ==
    /\ srcCalls = 1
    /\ retN = call.k
    /\ retErr = call.err
    /\ Take(p, retN) = call.data
    /\ Len(p) = call.len

\* C14: r.n is always between 0 and 4 and never decreases; once it is 4 it
\* stays 4 and every Read is the wrapped source's Read: same buffer, same
\* count, same error.
C14_CounterMonotone ==
    /\ [](rn \in 0..BvmLen)
    /\ [][rn' >= rn]_vars
    /\ [][rn = BvmLen => (rn' = BvmLen /\ call'.n0 = BvmLen)]_vars
    /\ []((call.n0 = BvmLen /\ call # NoCall) => PassedThrough)

\* C14 witness: a call that began with r.n = 4 and passed on two source bytes
\* together with end-of-stream.
C14_Witness ==
    /\ call.n0 = BvmLen /\ rn = BvmLen
    /\ call.k = 2 /\ call.err = "EOF"
    /\ retN = 2 /\ retErr = "EOF"

\* C20: a spanning call whose source read fails leaves r.n at 4 although it
\* returns (0, error) and reports nothing; from r.n = 4 on every call is
\* passed through and adds to the returned bytes only what the wrapped
\* source answered, so the marker bytes staged in the failed call are never
\* reported.
C20_StagedMarkerLost ==
    /\ []((Spanning /\ call.err \in {"EOF", "ERR"}) => (rn = BvmLen /\ retN = 0))
    /\ [][(call'.n0 < BvmLen /\ call'.len > BvmLen - call'.n0
             /\ call'.err \in {"EOF", "ERR"}) => got' = got]_vars
    /\ [][rn = BvmLen
            => (call'.n0 = BvmLen /\ got' = got \o call'.data)]_vars

\* C20 witness: a call passed through after a spanning call had failed; fewer
\* than 4 bytes were ever reported.
C20_Witness ==
    /\ call.n0 = BvmLen /\ call # NoCall
    /\ ended /\ rn = BvmLen
    /\ Len(got) < BvmLen
    /\ delivered # <<>>

----------------------------------------------------------------------------
(* Handoff streams, stage results and the object handles *)

\* a Write is pending on a handoff only while its writer is inside out.Write
WriterInside(s) == pc[s] = "write"

\* C15: a Write to stream A or stream B does not return before the reader
\* has taken all of its bytes: a handoff holds bytes only of the one Write
\* its writer is blocked in, extract asks for the next record only when all
\* it wrote has been read, and decompress reads stream A on only when what it
\* wrote to stream B has been read.
C15_Backpressure ==
    /\ [](\A s \in Upstream :
            /\ Out(s).writing => WriterInside(s)
            /\ Out(s).buf # <<>> => Out(s).writing)
    /\ [](aGot \o pipeA.buf = Concat(exWrites))
    /\ [][idx' > idx => (aGot = Concat(exWrites) /\ pipeA.buf = <<>>)]_vars
    /\ [][aGot' # aGot => (pipeB.buf = <<>> /\ ~pipeB.writing)]_vars

\* C15 witness: the first blob is read in part, extract is blocked in its
\* Write and another record waits in the envelope.
C15_Witness ==
    /\ pipeA.writing /\ pipeA.buf # <<>>
    /\ aGot # <<>>
    /\ WriterInside("extract")
    /\ idx = 1 /\ Len(envelope) = 2

\* C16: once the sink has rejected a Write, extract returns the sink's error;
\* it asks for no further record and writes nothing more.
C16_SinkErrorStops ==
    /\ [](pipeA.failed
            => /\ pc["extract"] \in {"write", "returned"}
               /\ pc["extract"] = "returned" => res["extract"] = "write failed"
               /\ idx = Len(exWrites))
    /\ [][pipeA.failed
            => (idx' = idx /\ exWrites' = exWrites /\ ~pipeA'.writing)]_vars

\* C16 witness: the sink rejected the first of two blobs and extract
\* returned its error with the second record unread.
C16_Witness ==
    /\ pipeA.failed
    /\ res["extract"] = "write failed"
    /\ idx = 1 /\ Len(envelope) = 2
    /\ envelope[2].kind = "blob"

\* the decode and encode errors dump returns from inside its loop
DecodeErrors == {"ion: unexpected EOF", "ion: invalid value"}

\* C17: dump returns nil only after the decoder answered ErrNoInput, with no
\* byte of input left undecoded, and after enc.Finish() ran, once; Finish
\* runs only on ErrNoInput and nothing is encoded after it; a decode error
\* is returned as it is, without Finish.
C17_FinishOnce ==
    /\ [](finished <= 1)
    /\ [](res["dump"] = "nil"
            => (finished = 1 /\ "dump" \in sawEOF /\ ibuf = <<>>))
    /\ [](res["dump"] \in DecodeErrors => finished = 0)
    /\ []((finished = 1 \/ res["dump"] # "none") => pc["dump"] # "decode")
    /\ [][finished' # finished
            => (ibuf = <<>> /\ PipeAtEOF(pipeB)
                  /\ res'["dump"] \in {"nil", "write failed"})]_vars
    /\ [][finished = 1 => stdout' = stdout]_vars

\* C17 witness: a run that printed a value, finished the encoder and ended
\* with status 0.
C17_Witness ==
    /\ res["dump"] = "nil"
    /\ finished = 1
    /\ stdout # <<>>
    /\ proc = "exit0"

\* C18: when the process has ended, the probe's handle and the streaming
\* handle of the object are both closed.
C18_HandlesClosedAtEnd ==
    proc # "running" => (hProbe = "closed" /\ hStream = "closed")

\* C19: a stage sees end-of-stream on its input only when the stage before
\* it returned nil and all that stage wrote has been read; the handoff of a
\* stage that returned an error is never closed.
C19_CleanEOFOnly ==
    /\ \A s \in Upstream :
         /\ Down(s) \in sawEOF
              => /\ res[s] = "nil"
                 /\ Out(s).closed
                 /\ Out(s).buf = <<>> /\ ~Out(s).writing
         /\ Failed(s) => ~Out(s).closed
    /\ "decompress" \in sawEOF => aGot = Concat(exWrites)

\* C19 witness: decompress failed inside a frame and the process ended with
\* stream B open; decompress itself had met end-of-stream on stream A after
\* reading all extract wrote.
C19_Witness ==
    /\ "decompress" \in sawEOF
    /\ aGot # <<>>
    /\ Failed("decompress")
    /\ ~pipeB.closed
    /\ proc = "exit1"

====
